---- MODULE Spec2Model ----
(***************************************************************************)
(* A model of email_assistant.py: one Streamlit script whose main() is     *)
(* re-run from the top after every widget event.  A text is a sequence of  *)
(* string tokens; concatenation of texts is \o.  A state is the widget     *)
(* state and st.session_state that survive between runs, together with     *)
(* what the last run of main() produced.  A button is True only in the run *)
(* its press started, and only when that run reaches its st.button call.   *)
(* analyze_email (lines 19-52, 256-261) only renders its result and keeps  *)
(* no state; it is left out.                                               *)
(***************************************************************************)
EXTENDS Integers, Sequences, FiniteSets, TLC

VARIABLES
    tone,              \* sidebar selectbox "Select Reply Tone:"
    length,            \* sidebar selectbox "Reply Length:"
    num_drafts,        \* sidebar slider "Number of Draft Replies:"
    custom_signature,  \* sidebar text area "Your Signature:"
    pasted,            \* text area "Paste your email here:"
    uploaded_file,     \* file uploader "Upload email file:"
    edit_mode,         \* st.session_state["edit_mode_<i>"]: "absent", "True" or "False"
    widget_text,       \* what the user typed into keyed text areas still on the page
    event,             \* the widget event that started the last run
    email_content,     \* main's local email_content at the end of the last run
    crashed,           \* the last run ended in an uncaught exception
    action_type,       \* main's local action_type in the last run
    responses,         \* what the generation service answered to each call of the last run
    prompts,           \* the prompt of each generation call of the last run
    drafts,            \* main's local list drafts at the end of the last run
    offered,           \* the keys of the widgets the last run rendered
    combined_drafts    \* the text handed to st.download_button in the last run

vars == <<tone, length, num_drafts, custom_signature, pasted, uploaded_file,
          edit_mode, widget_text, event, email_content, crashed, action_type,
          responses, prompts, drafts, offered, combined_drafts>>

-----------------------------------------------------------------------------
(* Bounds of the model. *)

\* longest uploaded byte string
MaxBytes == 2
\* most paragraphs of an uploaded word-processor document
MaxParagraphs == 2

-----------------------------------------------------------------------------
(* Texts. *)

None == "None"

Whitespace == {" ", "\n", "\n\n"}

RECURSIVE LStrip(_)
LStrip(s) == IF s # <<>> /\ Head(s) \in Whitespace THEN LStrip(Tail(s)) ELSE s

RECURSIVE RStrip(_)
RStrip(s) == IF s # <<>> /\ s[Len(s)] \in Whitespace THEN RStrip(SubSeq(s, 1, Len(s) - 1)) ELSE s

\* str.strip()
Strip(s) == RStrip(LStrip(s))

\* str(i + 1) inside the f-strings
ToStr(i) == <<"1", "2", "3", "4">>[i]

\* dict.get(key, default)
DictGet(d, k, default) == IF k \in DOMAIN d THEN d[k] ELSE default

RECURSIVE Join(_, _)
Join(sep, parts) ==
    IF parts = <<>> THEN <<>>
    ELSE IF Len(parts) = 1 THEN Head(parts)
    ELSE Head(parts) \o sep \o Join(sep, Tail(parts))

-----------------------------------------------------------------------------
(* generate_email_reply *)

tone_instructions ==
    [t \in {"professional", "friendly", "casual", "formal", "empathetic", "assertive"} |->
        CASE t = "professional" -> "Use formal business language, be respectful and direct"
          [] t = "friendly" -> "Use warm, approachable language while maintaining professionalism"
          [] t = "casual" -> "Use relaxed, conversational tone but still appropriate for business"
          [] t = "formal" -> "Use very formal, traditional business language with proper etiquette"
          [] t = "empathetic" -> "Show understanding and compassion, acknowledge concerns warmly"
          [] t = "assertive" -> "Be confident and clear, take charge of the situation"]

length_instructions ==
    [l \in {"short", "medium", "detailed"} |->
        CASE l = "short" -> "Keep the reply to 2-3 sentences maximum, be very concise"
          [] l = "medium" -> "Write a balanced reply of 1-2 paragraphs"
          [] l = "detailed" -> "Provide a comprehensive response with detailed explanations"]

action_prompts ==
    [a \in {"accept_meeting", "decline_politely", "request_info", "acknowledge", "schedule_followup"} |->
        CASE a = "accept_meeting" -> "Accept the meeting invitation graciously and confirm availability"
          [] a = "decline_politely" -> "Politely decline the request with a brief explanation"
          [] a = "request_info" -> "Ask for additional information or clarification professionally"
          [] a = "acknowledge" -> "Acknowledge receipt and provide appropriate response"
          [] a = "schedule_followup" -> "Suggest scheduling a follow-up meeting or call"]

\* the value a failed dictionary lookup stands for: the lookup raised
Raised == "<raised>"

ToneLookupStrict(t) == IF t \in DOMAIN tone_instructions THEN tone_instructions[t] ELSE Raised

\* tone_instructions.get(tone, tone_instructions['professional'])
ToneLookup(t) == DictGet(tone_instructions, t, tone_instructions["professional"])

\* length_instructions.get(length, length_instructions['medium'])
LengthLookup(l) == DictGet(length_instructions, l, length_instructions["medium"])

ActionPartAlways(a) == <<"\nSPECIFIC ACTION: ", DictGet(action_prompts, a, "accept_meeting")>>

\* if action_type and action_type in action_prompts: base_prompt += ...
ActionPart(a) ==
    IF a # None /\ a # "" /\ a \in DOMAIN action_prompts
    THEN <<"\nSPECIFIC ACTION: ", action_prompts[a]>>
    ELSE <<>>

\* base_prompt as it is sent to the service
BasePrompt(content, t, l, a) ==
    <<"Write a professional email reply to the following email.",
      "TONE: ", ToneLookup(t), "LENGTH: ", LengthLookup(l)>>
    \o ActionPart(a)
    \o <<"Original email to reply to:">> \o content
    \o <<"Generate a complete email reply with: subject line, greeting, main body, closing.",
         "Do not include sender's signature - that will be added separately.">>

\* The outcomes of client.models.generate_content: a text, an empty text, an exception.
TextResponse(t) == [kind |-> "text", text |-> t]
EmptyResponse == [kind |-> "empty", text |-> <<>>]
RaiseResponse(m) == [kind |-> "raise", text |-> <<m>>]

SignatureAlways(reply, sig) == reply \o <<"\n\n">> \o sig

\* if custom_signature.strip(): reply_text += f"\n\n{custom_signature}"
AddSignature(reply, sig) == IF Strip(sig) # <<>> THEN reply \o <<"\n\n">> \o sig ELSE reply

\* the value generate_email_reply returns once the service has answered resp
ReplyOf(resp, sig) ==
    IF resp.kind = "raise" THEN <<"Error generating reply: ">> \o resp.text
    ELSE AddSignature(IF resp.kind = "text" THEN resp.text ELSE <<"Unable to generate reply.">>, sig)

\* generate_email_reply: the prompt it sends (none when composing it raised) and its result
generate_email_reply(content, t, l, a, sig, resp) ==
    LET prompt == BasePrompt(content, t, l, a)
    IN  IF \E k \in 1..Len(prompt) : prompt[k] = Raised
        THEN [prompt |-> <<>>, reply |-> <<"Error generating reply: ", "KeyError">>]
        ELSE [prompt |-> prompt, reply |-> ReplyOf(resp, sig)]

-----------------------------------------------------------------------------
(* Uploaded files and the extractors. *)

\* the byte values of the model: "H", "i", and 255, which no UTF-8 text holds
Bytes == {72, 105, 255}

ValidByte(b) == b < 128

Chr(b) == IF b = 72 THEN "H" ELSE "i"

RECURSIVE SeqsUpTo(_, _)
SeqsUpTo(S, n) ==
    IF n = 0 THEN {<<>>}
    ELSE LET shorter == SeqsUpTo(S, n - 1)
         IN  shorter \cup {Append(s, x) : s \in shorter, x \in S}

ByteStrings == SeqsUpTo(Bytes, MaxBytes)

\* bytes.decode('utf-8', errors='ignore')
DecodeIgnore(bs) ==
    LET ok == SelectSeq(bs, ValidByte) IN [k \in 1..Len(ok) |-> Chr(ok[k])]

\* str(file_bytes, 'utf-8'): raises UnicodeDecodeError on an invalid byte
DecodeStrict(bs) ==
    IF \E k \in 1..Len(bs) : ~ValidByte(bs[k])
    THEN [raised |-> TRUE, text |-> <<>>]
    ELSE [raised |-> FALSE, text |-> [k \in 1..Len(bs) |-> Chr(bs[k])]]

NoMsg == [raises |-> FALSE, headers |-> {}, multipart |-> FALSE, parts |-> <<>>]
NoDoc == [raises |-> FALSE, paragraphs |-> <<>>]
NoFile == [present |-> FALSE, ext |-> "", type |-> "", bytes |-> <<>>, msg |-> NoMsg, doc |-> NoDoc]

\* the value of each header field a message of the model may carry
HeaderValue == [From |-> "alice@example.com", Subject |-> "Meeting", Date |-> "Mon, 1 Jan 2024"]

\* msg.get(name, default)
HeaderOf(msg, name, default) == IF name \in msg.headers THEN HeaderValue[name] ELSE default

\* the first item of msg.walk() whose content type is text/plain, 0 when there is none
FirstPlain(parts) ==
    IF \E k \in 1..Len(parts) : parts[k].ctype = "text/plain"
    THEN CHOOSE k \in 1..Len(parts) :
            /\ parts[k].ctype = "text/plain"
            /\ \A j \in 1..(k - 1) : parts[j].ctype # "text/plain"
    ELSE 0

EmlBody(msg) ==
    IF msg.multipart
    THEN IF FirstPlain(msg.parts) = 0 THEN <<>>
         ELSE DecodeIgnore(msg.parts[FirstPlain(msg.parts)].payload)
    ELSE DecodeIgnore(msg.parts[1].payload)

extract_text_from_eml(file) ==
    IF file.msg.raises THEN <<"Error reading EML file: ", "parse error">>
    ELSE <<"From: ", HeaderOf(file.msg, "From", "Unknown Sender"),
           "\nSubject: ", HeaderOf(file.msg, "Subject", "No Subject"),
           "\nDate: ", HeaderOf(file.msg, "Date", "No Date"), "\n\n">>
         \o EmlBody(file.msg)

extract_text_from_docx(file) ==
    IF file.doc.raises THEN <<"Error reading DOCX file: ", "not a zip file">>
    ELSE Join(<<"\n">>, file.doc.paragraphs)

\* main, the file-load step: email_content after it, or the uncaught exception
FileLoad(text_area, file) ==
    IF ~file.present THEN [crashed |-> FALSE, email_content |-> text_area]
    ELSE IF file.type = "text/plain"
         THEN IF DecodeStrict(file.bytes).raised
              THEN [crashed |-> TRUE, email_content |-> text_area]
              ELSE [crashed |-> FALSE, email_content |-> DecodeStrict(file.bytes).text]
    ELSE IF file.ext = "eml" THEN [crashed |-> FALSE, email_content |-> extract_text_from_eml(file)]
    ELSE IF file.ext = "docx" THEN [crashed |-> FALSE, email_content |-> extract_text_from_docx(file)]
    ELSE [crashed |-> FALSE, email_content |-> text_area]

TxtFile(ty, bs) == [present |-> TRUE, ext |-> "txt", type |-> ty, bytes |-> bs, msg |-> NoMsg, doc |-> NoDoc]
EmlFile(m) == [present |-> TRUE, ext |-> "eml", type |-> "message/rfc822", bytes |-> <<>>, msg |-> m, doc |-> NoDoc]
DocxFile(d) == [present |-> TRUE, ext |-> "docx", type |-> "application/vnd.openxmlformats-officedocument.wordprocessingml.document", bytes |-> <<>>, msg |-> NoMsg, doc |-> d]

Part(ct, bs) == [ctype |-> ct, payload |-> bs]

Messages ==
    {[raises |-> TRUE, headers |-> {}, multipart |-> FALSE, parts |-> <<>>]}
    \cup {[raises |-> FALSE, headers |-> h, multipart |-> FALSE, parts |-> <<Part("text/plain", bs)>>] :
            h \in {{}, {"From", "Subject", "Date"}}, bs \in ByteStrings}
    \cup {[raises |-> FALSE, headers |-> h, multipart |-> TRUE, parts |-> ps] :
            h \in {{}, {"From", "Subject", "Date"}},
            ps \in {<<Part("multipart/alternative", <<>>), Part("text/html", <<105>>)>>}
                   \cup {<<Part("multipart/alternative", <<>>), Part("text/html", <<105>>), Part("text/plain", bs)>> : bs \in ByteStrings}
                   \cup {<<Part("multipart/alternative", <<>>), Part("text/plain", bs), Part("text/plain", <<105>>)>> : bs \in ByteStrings}}

Documents ==
    {[raises |-> TRUE, paragraphs |-> <<>>]}
    \cup {[raises |-> FALSE, paragraphs |-> ps] : ps \in SeqsUpTo({<<>>, <<"Hi">>, <<"Thanks">>}, MaxParagraphs)}

Files ==
    {TxtFile(ty, bs) : ty \in {"text/plain", ""}, bs \in ByteStrings}
    \cup {EmlFile(m) : m \in Messages}
    \cup {DocxFile(d) : d \in Documents}

-----------------------------------------------------------------------------
(* main: one run of the script. *)

NoKey == <<"none", 0>>
Key(kind, i) == <<kind, i>>

QuickActions == {"accept_meeting", "decline_politely", "request_info", "acknowledge", "schedule_followup"}

\* the buttons whose press starts reply generation
GenerateKeys == {Key("generate", 0)} \cup {Key(a, 0) : a \in QuickActions}

\* lines 288-303: the elif chain over the five quick-action buttons
ActionTypeOf(clicked) ==
    IF clicked = Key("accept_meeting", 0) THEN "accept_meeting"
    ELSE IF clicked = Key("decline_politely", 0) THEN "decline_politely"
    ELSE IF clicked = Key("request_info", 0) THEN "request_info"
    ELSE IF clicked = Key("acknowledge", 0) THEN "acknowledge"
    ELSE IF clicked = Key("schedule_followup", 0) THEN "schedule_followup"
    ELSE None

GenerateButtonSticky(clicked) == clicked # NoKey

\* generate_button once the elif chain has run
GenerateButton(clicked) == clicked = Key("generate", 0) \/ ActionTypeOf(clicked) # None

\* variation_prompt
Variation(i, n) == IF n > 1 THEN <<" (Draft ", ToStr(i), " variation)">> ELSE <<>>

GenerateDraftsAbort(content, t, l, a, sig, n, resp) ==
    LET all == [i \in 1..n |-> generate_email_reply(content \o Variation(i, n), t, l, a, sig, resp[i])]
        bad == {i \in 1..n : resp[i].kind = "raise"}
    IN  IF bad = {} THEN all
        ELSE SubSeq(all, 1, (CHOOSE i \in bad : \A j \in bad : i <= j) - 1)

\* lines 311-323: one generate_email_reply call per draft, in order
GenerateDrafts(content, t, l, a, sig, n, resp) ==
    [i \in 1..n |-> generate_email_reply(content \o Variation(i, n), t, l, a, sig, resp[i])]

\* lines 378-380: combined_drafts
RECURSIVE DraftSections(_, _)
DraftSections(ds, i) ==
    IF i > Len(ds) THEN <<>>
    ELSE <<"=== DRAFT ", ToStr(i), " ===\n">> \o ds[i] \o <<"\n\n">> \o DraftSections(ds, i + 1)

CombinedDrafts(ds) == <<"Generated Email Replies - ", "<now>", "\n\n">> \o DraftSections(ds, 1)

\* the value of the "Edit Draft i" text area: what was typed, else its default drafts[i]
EditedDraft(wt, ds, i) ==
    IF Key("edited_draft", i) \in DOMAIN wt THEN wt[Key("edited_draft", i)] ELSE ds[i]

QuickKeys == {Key(a, 0) : a \in QuickActions}

\* what a run leaves when it renders nothing below the quick actions
Idle(content, isCrashed, em, keys) ==
    [email_content |-> content, crashed |-> isCrashed, action_type |-> None,
     responses |-> <<>>, prompts |-> <<>>, drafts |-> <<>>, offered |-> keys,
     combined_drafts |-> <<>>, edit_mode |-> em, rerun |-> FALSE]

EditModeDefaultOpen(em, i) == em[i] # "False"

\* line 347: st.session_state.get(f"edit_mode_{i+1}", False)
EditMode(em, i) == IF em[i] = "absent" THEN FALSE ELSE em[i] = "True"

\* lines 326-364: the widgets of the draft section, given the edit flags in force
DraftKeys(n, em) ==
    IF n = 1 THEN {Key("draft", 1), Key("copy", 1)}
    ELSE UNION {{Key("draft", i), Key("copy", i), Key("edit", i)}
                \cup (IF EditMode(em, i) THEN {Key("edited_draft", i), Key("save", i), Key("cancel", i)} ELSE {})
                : i \in 1..n}

\* main, from the top to its end or to the st.rerun() or exception that cuts it short
Pass(clicked, t, l, n, sig, text_area, file, em, wt, resp) ==
    LET load == FileLoad(text_area, file)
        content == load.email_content
        at == ActionTypeOf(clicked)
        made == GenerateDrafts(content, t, l, at, sig, n, resp)
        ds == [i \in 1..Len(made) |-> made[i].reply]
        \* line 343-344: the edit button of a tab sets the flag of its draft
        emA == [i \in 1..3 |-> IF n > 1 /\ i <= n /\ clicked = Key("edit", i) THEN "True" ELSE em[i]]
        \* lines 356-364: Save Changes or Cancel of an open editor ends the run with st.rerun()
        stops == {i \in 1..n : n > 1 /\ EditMode(emA, i) /\ clicked \in {Key("save", i), Key("cancel", i)}}
        emB == [i \in 1..3 |-> IF i \in stops THEN "False" ELSE emA[i]]
        \* line 357: Save Changes writes the editor's text into the local list
        saved == [i \in 1..Len(ds) |-> IF i \in stops /\ clicked = Key("save", i) THEN EditedDraft(wt, ds, i) ELSE ds[i]]
    IN  IF load.crashed THEN Idle(content, TRUE, em, {})
        ELSE IF Strip(content) = <<>> THEN Idle(content, FALSE, em, {})
        ELSE IF ~GenerateButton(clicked) THEN Idle(content, FALSE, em, GenerateKeys)
        ELSE IF stops # {} \/ clicked = Key("new_drafts", 0)
             THEN [Idle(content, FALSE, emB, {}) EXCEPT !.rerun = TRUE, !.drafts = saved]
        ELSE [email_content |-> content, crashed |-> FALSE, action_type |-> at,
              responses |-> SubSeq(resp, 1, n),
              prompts |-> [i \in 1..Len(made) |-> made[i].prompt],
              drafts |-> ds,
              offered |-> GenerateKeys \cup DraftKeys(Len(ds), emB)
                          \cup {Key("new_drafts", 0), Key("download", 0), Key("try_tone", 0)},
              combined_drafts |-> CombinedDrafts(ds),
              edit_mode |-> emB, rerun |-> FALSE]

\* a run and, when st.rerun() ended it, the run that follows with no button pressed
Run(clicked, t, l, n, sig, text_area, file, em, wt, resp) ==
    LET first == Pass(clicked, t, l, n, sig, text_area, file, em, wt, resp)
    IN  IF first.rerun
        THEN Pass(NoKey, t, l, n, sig, text_area, file, first.edit_mode, wt, resp)
        ELSE first

-----------------------------------------------------------------------------
(* The session: every widget event re-runs main. *)

\* the options of the two selectboxes that a user of the model picks, and of the slider
SessionTones == {"professional", "empathetic"}
SessionLengths == {"medium", "short"}
DraftCounts == 1..3

\* the texts a user of the model types
Signatures == {<<>>, <<" ">>, <<"Best, A">>}
PastedTexts == {<<>>, <<"Can we meet on Monday?">>}
TypedTexts == {<<"new text">>}

\* the files a user of the model uploads in a session
SessionFiles == {TxtFile("text/plain", <<72, 105>>), TxtFile("text/plain", <<72, 255>>)}

\* what the generation service may answer to one call
ServiceOutcomes == {TextResponse(<<"Dear Alice, Monday works.">>), EmptyResponse, RaiseResponse("429 quota exceeded")}

\* the argument of a run that makes no generation call
NoResponses == [i \in 1..3 |-> EmptyResponse]

Settings == <<"settings", 0>>

\* the state main leaves behind: the widget values it ran with and what it rendered
Rerun(ev, clicked, t, l, n, sig, text_area, file, wt, resp) ==
    \E r \in {Run(clicked, t, l, n, sig, text_area, file, edit_mode, wt, resp)} :
        /\ tone' = t
        /\ length' = l
        /\ num_drafts' = n
        /\ custom_signature' = sig
        /\ pasted' = text_area
        /\ uploaded_file' = file
        /\ event' = ev
        /\ edit_mode' = r.edit_mode
        \* the state of a widget that a run does not render is dropped
        /\ widget_text' = [k \in (DOMAIN wt) \cap r.offered |-> wt[k]]
        /\ email_content' = r.email_content
        /\ crashed' = r.crashed
        /\ action_type' = r.action_type
        /\ responses' = r.responses
        /\ prompts' = r.prompts
        /\ drafts' = r.drafts
        /\ offered' = r.offered
        /\ combined_drafts' = r.combined_drafts

Init ==
    /\ tone = "professional"
    /\ length = "medium"
    /\ num_drafts = 2
    /\ custom_signature = <<>>
    /\ pasted = <<>>
    /\ uploaded_file = NoFile
    /\ edit_mode = [i \in 1..3 |-> "absent"]
    /\ widget_text = <<>>
    /\ event = <<"start", 0>>
    /\ email_content = <<>>
    /\ crashed = FALSE
    /\ action_type = None
    /\ responses = <<>>
    /\ prompts = <<>>
    /\ drafts = <<>>
    /\ offered = {}
    /\ combined_drafts = <<>>

SetTone(t) ==
    /\ t # tone
    /\ Rerun(Settings, NoKey, t, length, num_drafts, custom_signature, pasted, uploaded_file, widget_text, NoResponses)

SetLength(l) ==
    /\ l # length
    /\ Rerun(Settings, NoKey, tone, l, num_drafts, custom_signature, pasted, uploaded_file, widget_text, NoResponses)

SetNumDrafts(n) ==
    /\ n # num_drafts
    /\ Rerun(Settings, NoKey, tone, length, n, custom_signature, pasted, uploaded_file, widget_text, NoResponses)

SetSignature(sig) ==
    /\ sig # custom_signature
    /\ Rerun(Settings, NoKey, tone, length, num_drafts, sig, pasted, uploaded_file, widget_text, NoResponses)

PasteEmail(text) ==
    /\ text # pasted
    /\ Rerun(Settings, NoKey, tone, length, num_drafts, custom_signature, text, uploaded_file, widget_text, NoResponses)

UploadFile(file) ==
    /\ file # uploaded_file
    /\ Rerun(Settings, NoKey, tone, length, num_drafts, custom_signature, pasted, file, widget_text, NoResponses)

\* a press of the generate button or of a quick-action button
PressGenerate(k, resp) ==
    /\ k \in offered \cap GenerateKeys
    /\ Rerun(k, k, tone, length, num_drafts, custom_signature, pasted, uploaded_file, widget_text, resp)

\* a press of any other button on the page
PressOther(k) ==
    /\ k \in offered \ GenerateKeys
    /\ k[1] \notin {"draft", "edited_draft"}
    /\ Rerun(k, k, tone, length, num_drafts, custom_signature, pasted, uploaded_file, widget_text, NoResponses)

\* the user changes the text of a draft's text area
TypeIn(k, text) ==
    /\ k \in offered
    /\ k[1] \in {"draft", "edited_draft"}
    /\ Rerun(<<"type", k[2]>>, NoKey, tone, length, num_drafts, custom_signature, pasted, uploaded_file,
             [j \in (DOMAIN widget_text) \cup {k} |-> IF j = k THEN text ELSE widget_text[j]], NoResponses)

AllKeys ==
    GenerateKeys \cup {Key(kind, i) : kind \in {"draft", "copy", "edit", "edited_draft", "save", "cancel"}, i \in 1..3}
    \cup {Key("new_drafts", 0), Key("download", 0), Key("try_tone", 0)}

Next ==
    \/ \E t \in SessionTones : SetTone(t)
    \/ \E l \in SessionLengths : SetLength(l)
    \/ \E n \in DraftCounts : SetNumDrafts(n)
    \/ \E sig \in Signatures : SetSignature(sig)
    \/ \E text \in PastedTexts : PasteEmail(text)
    \/ \E file \in SessionFiles \cup {NoFile} : UploadFile(file)
    \/ \E k \in GenerateKeys, resp \in [1..num_drafts -> ServiceOutcomes] : PressGenerate(k, resp)
    \/ \E k \in AllKeys : PressOther(k)
    \/ \E k \in AllKeys, text \in TypedTexts : TypeIn(k, text)

Spec == Init /\ [][Next]_vars

-----------------------------------------------------------------------------
(* generate_email_reply on its own, over recognised and unrecognised arguments. *)

ReplyTones == DOMAIN tone_instructions \cup {"sarcastic", ""}
ReplyLengths == DOMAIN length_instructions \cup {"epic", ""}
ReplyActions == QuickActions \cup {None, "", "forward"}

\* the variables a specification of one function leaves at their first value
Untouched ==
    /\ edit_mode = [i \in 1..3 |-> "absent"]
    /\ widget_text = <<>>
    /\ event = <<"start", 0>>
    /\ crashed = FALSE
    /\ responses = <<>>
    /\ prompts = <<>>
    /\ drafts = <<>>
    /\ offered = {}
    /\ combined_drafts = <<>>

InitReply ==
    /\ tone \in ReplyTones
    /\ length \in ReplyLengths
    /\ action_type \in ReplyActions
    /\ custom_signature \in Signatures
    /\ email_content = <<"Can we meet on Monday?">>
    /\ num_drafts = 1
    /\ pasted = email_content
    /\ uploaded_file = NoFile
    /\ Untouched

\* one call of generate_email_reply, answered by resp
CallReply(resp) ==
    /\ event = <<"start", 0>>
    /\ \E r \in {generate_email_reply(email_content, tone, length, action_type, custom_signature, resp)} :
        /\ responses' = <<resp>>
        /\ prompts' = <<r.prompt>>
        /\ drafts' = <<r.reply>>
    /\ event' = <<"call", 0>>
    /\ UNCHANGED <<tone, length, num_drafts, custom_signature, pasted, uploaded_file, edit_mode,
                   widget_text, email_content, crashed, action_type, offered, combined_drafts>>

NextReply == \E resp \in ServiceOutcomes : CallReply(resp)

SpecReply == InitReply /\ [][NextReply]_vars

-----------------------------------------------------------------------------
(* The file-load step of main on its own, over every file of the model. *)

InitExtract ==
    /\ uploaded_file \in Files
    /\ pasted \in PastedTexts
    /\ tone = "professional"
    /\ length = "medium"
    /\ num_drafts = 2
    /\ custom_signature = <<>>
    /\ email_content = <<>>
    /\ action_type = None
    /\ Untouched

\* lines 221-246 of main
LoadFile ==
    /\ event = <<"start", 0>>
    /\ \E load \in {FileLoad(pasted, uploaded_file)} :
        /\ email_content' = load.email_content
        /\ crashed' = load.crashed
    /\ event' = <<"load", 0>>
    /\ UNCHANGED <<tone, length, num_drafts, custom_signature, pasted, uploaded_file, edit_mode,
                   widget_text, action_type, responses, prompts, drafts, offered, combined_drafts>>

NextExtract == LoadFile

SpecExtract == InitExtract /\ [][NextExtract]_vars

-----------------------------------------------------------------------------
(* The claims. *)

Generated == event \in GenerateKeys
EditRequested == event[1] = "edit"

Occurrences(text, token) == Cardinality({k \in 1..Len(text) : text[k] = token})

StartsWith(text, prefix) == Len(text) >= Len(prefix) /\ SubSeq(text, 1, Len(prefix)) = prefix

\* text holds part as a run of consecutive tokens
Holds(text, part) ==
    \E k \in 0..(Len(text) - Len(part)) : SubSeq(text, k + 1, k + Len(part)) = part

EditorKeys == {Key(kind, i) : kind \in {"edited_draft", "save", "cancel"}, i \in 1..3}
DraftSectionKeys ==
    EditorKeys \cup {Key(kind, i) : kind \in {"draft", "copy", "edit"}, i \in 1..3}
    \cup {Key("new_drafts", 0), Key("download", 0), Key("try_tone", 0)}

\* C1: a generation trigger with num_drafts = n in 1..3 leaves exactly n drafts, draft i
\* made by call i (whose prompt carries the marker of draft i when n > 1); a call that
\* raised leaves "Error generating reply: <message>" as draft i and every other draft
\* starts with what its own call returned, whatever the other calls did.
C1_BatchSurvivesFailures ==
    Generated =>
        /\ Len(drafts) = num_drafts
        /\ Len(responses) = num_drafts
        /\ Len(prompts) = num_drafts
        /\ \A i \in 1..num_drafts :
            /\ num_drafts > 1 => Holds(prompts[i], <<" (Draft ", ToStr(i), " variation)">>)
            /\ responses[i].kind = "raise" => drafts[i] = <<"Error generating reply: ">> \o responses[i].text
            /\ responses[i].kind = "text" => StartsWith(drafts[i], responses[i].text)
            /\ responses[i].kind = "empty" => StartsWith(drafts[i], <<"Unable to generate reply.">>)
        /\ combined_drafts # <<>>
        /\ \A i \in 1..num_drafts : Holds(combined_drafts, <<"=== DRAFT ", ToStr(i), " ===\n">> \o drafts[i])

C1_Witness ==
    /\ Generated
    /\ num_drafts = 3
    /\ responses[1].kind = "text"
    /\ responses[2].kind = "raise"
    /\ responses[3].kind = "text"

\* C2 (as claimed): after a batch exists, an edit request for draft i followed by a save
\* and an export shows the saved text for draft i and the other drafts' content; so once
\* the edit of draft i has been requested the batch is still there, Save Changes for
\* draft i is on the page and the export carries the current content of every draft.
C2_EditThenSaveThenExport ==
    EditRequested =>
        /\ drafts # <<>>
        /\ Key("save", event[2]) \in offered
        /\ combined_drafts = CombinedDrafts(drafts)

C4_CancelKeepsContent ==
    [][EditRequested' =>
        /\ Key("cancel", event'[2]) \in offered'
        /\ Len(drafts') >= event'[2]
        /\ drafts'[event'[2]] = drafts[event'[2]]]_vars

\* C5 (as claimed): whatever file is uploaded, the file-load step ends with
\* email_content set to a text and never in an uncaught exception.
C5_LoadNeverCrashes == event = <<"load", 0>> => ~crashed

\* C6 (as claimed): every draft of a batch is the generated text, or the error text
\* when the call failed, followed by two newlines and the signature when the signature
\* is not blank, and that text alone when it is blank.
C6_SignatureOnEveryDraft ==
    Generated =>
        \A i \in 1..Len(drafts) :
            LET text == IF responses[i].kind = "text" THEN responses[i].text
                        ELSE IF responses[i].kind = "empty" THEN <<"Unable to generate reply.">>
                        ELSE <<"Error generating reply: ">> \o responses[i].text
            IN  drafts[i] = IF \E k \in 1..Len(custom_signature) : custom_signature[k] \notin Whitespace
                            THEN text \o <<"\n\n">> \o custom_signature
                            ELSE text

\* C6 (amended): the signature rule holds for every draft whose call returned: the
\* generated text, or "Unable to generate reply." for an empty answer, is followed by
\* two newlines and the signature when the signature is not blank and is unchanged when
\* it is blank; a draft whose call raised is the error text alone, without the signature.
C6_SignatureOnReturnedDrafts ==
    Generated =>
        \A i \in 1..Len(drafts) :
            LET text == IF responses[i].kind = "text" THEN responses[i].text
                        ELSE IF responses[i].kind = "empty" THEN <<"Unable to generate reply.">>
                        ELSE <<"Error generating reply: ">> \o responses[i].text
            IN  drafts[i] = IF responses[i].kind # "raise"
                               /\ \E k \in 1..Len(custom_signature) : custom_signature[k] \notin Whitespace
                            THEN text \o <<"\n\n">> \o custom_signature
                            ELSE text

C6_Witness ==
    /\ Generated
    /\ Len(drafts) = 3
    /\ custom_signature = <<"Best, A">>
    /\ responses[1].kind = "text"
    /\ responses[2].kind = "raise"
    /\ responses[3].kind = "empty"

\* C7: a run started by a quick-action button generates a batch with action_type that
\* button's value, and every prompt of it carries that action's instruction once and no
\* other; a run started by the generate button generates with action_type None and no
\* prompt of it carries a SPECIFIC ACTION line.
C7_OneActionPerCycle ==
    Generated =>
        /\ drafts # <<>>
        /\ action_type \in QuickActions \cup {None}
        /\ \A a \in QuickActions : event = Key(a, 0) => action_type = a
        /\ event = Key("generate", 0) => action_type = None
        /\ \A i \in 1..Len(prompts) :
            /\ Occurrences(prompts[i], "\nSPECIFIC ACTION: ") = IF action_type = None THEN 0 ELSE 1
            /\ \A a \in QuickActions :
                Occurrences(prompts[i], action_prompts[a]) = IF action_type = a THEN 1 ELSE 0

C7_Witness ==
    /\ event = Key("decline_politely", 0)
    /\ Len(prompts) = 2
    /\ Holds(prompts[2], <<"\nSPECIFIC ACTION: ", "Politely decline the request with a brief explanation">>)

\* C8 (as claimed): an edit request for draft i of a batch puts draft i into editing:
\* its edit flag is set and its editor is open on the page.
C8_EditRequestOpensEditor ==
    EditRequested =>
        /\ edit_mode[event[2]] = "True"
        /\ Key("edited_draft", event[2]) \in offered

\* C9: generate_email_reply composes a prompt for every tone and length it is given:
\* a defined tone or length puts its own instruction after TONE: or LENGTH:, any other
\* value puts the instruction of professional or of medium there.
C9_PromptNeverFails ==
    event = <<"call", 0>> =>
        /\ prompts[1] # <<>>
        /\ \A t \in DOMAIN tone_instructions :
            tone = t => Holds(prompts[1], <<"TONE: ", tone_instructions[t]>>)
        /\ tone \notin DOMAIN tone_instructions =>
            Holds(prompts[1], <<"TONE: ", "Use formal business language, be respectful and direct">>)
        /\ \A l \in DOMAIN length_instructions :
            length = l => Holds(prompts[1], <<"LENGTH: ", length_instructions[l]>>)
        /\ length \notin DOMAIN length_instructions =>
            Holds(prompts[1], <<"LENGTH: ", "Write a balanced reply of 1-2 paragraphs">>)
        /\ Occurrences(prompts[1], "TONE: ") = 1
        /\ Occurrences(prompts[1], "LENGTH: ") = 1

C9_Witness ==
    /\ event = <<"call", 0>>
    /\ tone = "sarcastic"
    /\ length = "epic"
    /\ Holds(prompts[1], <<"LENGTH: ", "Write a balanced reply of 1-2 paragraphs">>)

\* C10: a run that an event other than a press of the generate button or of a
\* quick-action button started makes no generation call and holds no drafts: the draft
\* section, its edit controls and the export are not on the page.
C10_BatchLivesOneRun ==
    ~Generated =>
        /\ responses = <<>>
        /\ prompts = <<>>
        /\ drafts = <<>>
        /\ combined_drafts = <<>>
        /\ offered \cap DraftSectionKeys = {}

C10_Witness ==
    /\ EditRequested
    /\ event[2] = 2
    /\ drafts = <<>>
    /\ Key("generate", 0) \in offered

====
